---- MODULE Spec2Model ----
(***************************************************************************)
(* Model of AER::Noise::GateError (src/noise/gate_error.hpp).              *)
(*                                                                         *)
(* Numbers.  The code computes in double / std::complex<double>.  The      *)
(* model computes exactly, in rationals <<n, d>> (d > 0, lowest terms) and *)
(* complex numbers [re, im] over them.  The input matrices are chosen so   *)
(* that every square root the code takes is the root of a perfect-square   *)
(* rational, so each intermediate value of the code is represented without *)
(* rounding.                                                               *)
(***************************************************************************)
EXTENDS Integers, Naturals, Sequences, FiniteSets, TLC

\* ------------------------------------------------------------------------
\* Bounds of the model
\* ------------------------------------------------------------------------
\* longest input map (number of Kraus matrices handed to set_from_ops)
MaxOps == 3
\* number of sampling threads and of sample_noise calls each of them makes
NThreads == 2
MaxSamples == 1
\* number of mutator calls made on one GateError
MaxCalls == 2

\* ------------------------------------------------------------------------
\* Exact rational arithmetic (stands for double)
\* ------------------------------------------------------------------------
GCD(a, b) ==
  LET G[x \in Nat, y \in Nat] == IF y = 0 THEN x ELSE G[y, x % y]
  IN  G[a, b]

IAbs(x) == IF x < 0 THEN -x ELSE x

\* n/d with the sign in the numerator, divided through by g
Reduced(n, d, g) == IF d < 0 THEN <<(-n) \div g, (-d) \div g>>
                    ELSE <<n \div g, d \div g>>

Rat(n, d) == Reduced(n, d, GCD(IAbs(n), IAbs(d)))

RZero == <<0, 1>>
ROne == <<1, 1>>
RAdd(x, y) == IF x[2] = y[2] THEN Rat(x[1] + y[1], x[2])
              ELSE Rat(x[1] * y[2] + y[1] * x[2], x[2] * y[2])
RNeg(x) == <<-x[1], x[2]>>
RSub(x, y) == RAdd(x, RNeg(y))
RMul(x, y) == Rat(x[1] * y[1], x[2] * y[2])
RInv(x) == Rat(x[2], x[1])
RDiv(x, y) == RMul(x, RInv(y))
RLt(x, y) == x[1] * y[2] < y[1] * x[2]
RGt(x, y) == RLt(y, x)
RAbs(x) == <<IAbs(x[1]), x[2]>>

\* std::sqrt on the perfect squares the inputs produce
IsSquareNat(n) == \E k \in 0..n : k * k = n
ISqrt(n) == CHOOSE k \in 0..n : k * k = n
HasSqrt(x) == x[1] >= 0 /\ IsSquareNat(x[1]) /\ IsSquareNat(x[2])
RSqrt(x) == <<ISqrt(x[1]), ISqrt(x[2])>>

\* ------------------------------------------------------------------------
\* std::complex<double>
\* ------------------------------------------------------------------------
Cx(re, im) == [re |-> re, im |-> im]
CZero == Cx(RZero, RZero)
COne == Cx(ROne, RZero)
CAdd(x, y) == Cx(RAdd(x.re, y.re), RAdd(x.im, y.im))
CSub(x, y) == Cx(RSub(x.re, y.re), RSub(x.im, y.im))
CMul(x, y) == Cx(RSub(RMul(x.re, y.re), RMul(x.im, y.im)),
                 RAdd(RMul(x.re, y.im), RMul(x.im, y.re)))
CConj(x) == Cx(x.re, RNeg(x.im))
CScale(r, x) == Cx(RMul(r, x.re), RMul(r, x.im))
\* std::norm: the squared magnitude
CNorm(x) == RAdd(RMul(x.re, x.re), RMul(x.im, x.im))
\* std::abs: the magnitude (the entries of the model lie on the real or the
\* imaginary axis, or have a perfect-square norm)
CAbs(x) == IF x.im = RZero THEN RAbs(x.re)
           ELSE IF x.re = RZero THEN RAbs(x.im)
           ELSE RSqrt(CNorm(x))
CReal(x) == x.re

\* ------------------------------------------------------------------------
\* cmatrix_t: a matrix is the sequence of its rows; mat(i, j) is 0-based
\* ------------------------------------------------------------------------
GetRows(mat) == Len(mat)
GetColumns(mat) == Len(mat[1])
size(mat) == GetRows(mat) * GetColumns(mat)
At(mat, i, j) == mat[i + 1][j + 1]

\* sum of f[k] for k in lo..hi
CSum(f, lo, hi) ==
  LET S[k \in lo..(hi + 1)] == IF k > hi THEN CZero ELSE CAdd(f[k], S[k + 1])
  IN  S[lo]

dagger(mat) ==
  [i \in 1..GetColumns(mat) |-> [j \in 1..GetRows(mat) |-> CConj(mat[j][i])]]

MatMul(A, B) ==
  [i \in 1..GetRows(A) |->
     [j \in 1..GetColumns(B) |->
        CSum([k \in 1..GetColumns(A) |-> CMul(A[i][k], B[k][j])],
             1, GetColumns(A))]]

MatAdd(A, B) ==
  [i \in 1..GetRows(A) |-> [j \in 1..GetColumns(A) |-> CAdd(A[i][j], B[i][j])]]

MatScale(r, A) ==
  [i \in 1..GetRows(A) |-> [j \in 1..GetColumns(A) |-> CScale(r, A[i][j])]]

ZeroMatrix(n) == [i \in 1..n |-> [j \in 1..n |-> CZero]]

SameShape(A, B) == GetRows(A) = GetRows(B) /\ GetColumns(A) = GetColumns(B)

\* ------------------------------------------------------------------------
\* Utils predicates used by set_from_ops
\* ------------------------------------------------------------------------
\* double threshold = 1e-10 = 1 / (ThresholdInvRoot * ThresholdInvRoot)
ThresholdInvRoot == 100000

\* x > threshold for a rational x = n/d >= 0: n * 10^10 > d, evaluated
\* without leaving 32 bits as n * 10^5 > floor(d / 10^5)
GtThreshold(x) == x[1] * ThresholdInvRoot > x[2] \div ThresholdInvRoot

is_square(mat) == GetRows(mat) = GetColumns(mat)

\* every entry is within the tolerance of the identity's entry
is_identity(mat) ==
  /\ is_square(mat)
  /\ \A i \in 1..GetRows(mat) : \A j \in 1..GetColumns(mat) :
       ~GtThreshold(CNorm(CSub(mat[i][j], IF i = j THEN COne ELSE CZero)))

is_unitary(mat) ==
  /\ is_square(mat)
  /\ is_identity(MatMul(mat, dagger(mat)))

\* ------------------------------------------------------------------------
\* GateError::set_from_ops, lines 115-122: the CPTP check
\* ------------------------------------------------------------------------
\* acc + f[1] + ... + f[Len(f)], added in this order
MatSum(f, acc) ==
  LET S[k \in 0..Len(f)] == IF k = 0 THEN acc ELSE MatAdd(S[k - 1], f[k])
  IN  S[Len(f)]

\* cptp(mats[0].size()) is a square matrix only when mats[0] is square, and
\* cptp + dagger(mat) * mat is defined only when the shapes agree
cptp_defined(mats) ==
  /\ is_square(mats[1])
  /\ \A k \in 1..Len(mats) : GetColumns(mats[k]) = GetRows(mats[1])

cptp_sum(mats) ==
  MatSum([k \in 1..Len(mats) |-> MatMul(dagger(mats[k]), mats[k])],
         ZeroMatrix(GetRows(mats[1])))

\* garbage: what the identity test answers on a sum that is not defined
is_cptp(mats, garbage) ==
  IF cptp_defined(mats) THEN is_identity(cptp_sum(mats)) ELSE garbage

\* ------------------------------------------------------------------------
\* GateError::set_from_ops, lines 127-161: the classification loop
\* ------------------------------------------------------------------------
NoError == "none"
InvalidChannel == "GateError input is not a CPTP map."
NonSquareOperator == "Error matrix is not square."
InvalidDecomposition == "GateError deduced probabilities invalid."
UnreachableState == "GateError type is out of range."

\* lines 141-143: p += real(abs(mat(j, 0) * conj(mat(0, j))))
weight_term(mat, j) == CAbs(CMul(At(mat, j, 0), CConj(At(mat, 0, j))))

weight(mat) ==
  LET F[j \in 0..GetRows(mat)] ==
        IF j = GetRows(mat) THEN RZero ELSE RAdd(weight_term(mat, j), F[j + 1])
  IN  F[0]

\* the locals of set_from_ops before the loop (lines 127-133); ps records
\* the p computed for each matrix the loop has handled
Locals0 == [p_identity |-> RZero, p_unitary |-> RZero,
            probs_unitaries |-> <<>>, unitaries |-> <<>>, kraus |-> <<>>,
            ps |-> <<>>, thrown |-> NoError]

\* lines 146-159: tmp is the rescaled matrix
classify_rescaled(mat, loc, p, tmp) ==
  IF is_identity(tmp)
  THEN [loc EXCEPT !.p_identity = RAdd(@, p)]
  ELSE IF is_unitary(tmp)
  THEN [loc EXCEPT !.unitaries = Append(@, tmp),
                   !.probs_unitaries = Append(@, p),
                   !.p_unitary = RAdd(@, p)]
  ELSE [loc EXCEPT !.kraus = Append(@, mat)]

\* lines 144-160: p is the weight of mat
classify_weighted(mat, loc, p) ==
  IF RGt(p, RZero)
  THEN classify_rescaled(mat, loc, p, MatScale(RInv(RSqrt(p)), mat))
  ELSE loc

\* one pass of the loop body, lines 136-160
classify_one(mat, loc) ==
  IF ~is_square(mat) THEN [loc EXCEPT !.thrown = NonSquareOperator]
  ELSE classify_weighted(mat, [loc EXCEPT !.ps = Append(@, weight(mat))],
                         weight(mat))

\* the loop of line 135: L[k] is the locals after k matrices; a throw ends
\* the loop
classify(mats) ==
  LET L[k \in 0..Len(mats)] ==
        IF k = 0 THEN Locals0
        ELSE IF L[k - 1].thrown # NoError THEN L[k - 1]
        ELSE classify_one(mats[k], L[k - 1])
  IN  L[Len(mats)]


\* ------------------------------------------------------------------------
\* The sub-error classes and std::discrete_distribution
\* ------------------------------------------------------------------------
RSum(ws) ==
  LET S[k \in 0..Len(ws)] == IF k = 0 THEN RZero ELSE RAdd(S[k - 1], ws[k])
  IN  S[Len(ws)]

\* std::discrete_distribution<uint_t>({w0, ..., wn}): the distribution keeps
\* the probabilities w_k / S, S the sum of the weights; an empty list of
\* weights gives the single outcome 0
discrete_distribution(ws) ==
  IF ws = <<>> THEN <<ROne>>
  ELSE [k \in 1..Len(ws) |-> RDiv(ws[k], RSum(ws))]

\* UnitaryError: the candidate unitaries and their weights
DefaultUnitaryError == [probabilities |-> <<>>, unitaries |-> <<>>]
UnitaryError_set_probabilities(err, probs) == [err EXCEPT !.probabilities = probs]
UnitaryError_set_unitaries(err, mats) == [err EXCEPT !.unitaries = mats]

\* KrausError: the Kraus operators and the activation probability
DefaultKrausError == [kraus |-> <<>>, probability |-> RZero]
KrausError_set_kraus(err, mats) == [err EXCEPT !.kraus = mats]
KrausError_set_probability(err, p) == [err EXCEPT !.probability = p]

\* ------------------------------------------------------------------------
\* GateError: the members (lines 63-73) and the mutators (lines 98-108)
\* ------------------------------------------------------------------------
\* GateError() = default
DefaultGateError ==
  [probabilities_ |-> discrete_distribution(<<>>),
   unitary_error_ |-> DefaultUnitaryError,
   kraus_error_ |-> DefaultKrausError]

\* set_probabilities that keeps the values as they are given
set_probabilities_raw(self, p_identity, p_unitary, p_kraus) ==
  [self EXCEPT !.probabilities_ = <<p_identity, p_unitary, p_kraus>>]

set_probabilities(self, p_identity, p_unitary, p_kraus) ==
  [self EXCEPT !.probabilities_ =
     discrete_distribution(<<p_identity, p_unitary, p_kraus>>)]

set_kraus(self, err) == [self EXCEPT !.kraus_error_ = err]

set_unitary(self, err) == [self EXCEPT !.unitary_error_ = err]

\* ------------------------------------------------------------------------
\* GateError::set_from_ops, lines 162-191
\* ------------------------------------------------------------------------
\* line 163
infer_p_kraus(p_identity, p_unitary) == RSub(RSub(ROne, p_identity), p_unitary)

\* lines 165-167
sanity_check_fails(p_identity, p_unitary, p_kraus) ==
  GtThreshold(RAbs(RSub(RAdd(RAdd(p_identity, p_unitary), p_kraus), ROne)))

\* lines 171-173
rescale_kraus(kraus, p_kraus) ==
  IF RGt(p_kraus, RZero) /\ RLt(p_kraus, ROne)
  THEN [k \in 1..Len(kraus) |-> MatScale(RInv(RSqrt(p_kraus)), kraus[k])]
  ELSE kraus

\* lines 175-177
rescale_probs(probs_unitaries, p_unitary) ==
  IF RGt(p_unitary, RZero) /\ RLt(p_unitary, ROne)
  THEN [k \in 1..Len(probs_unitaries) |-> RDiv(probs_unitaries[k], p_unitary)]
  ELSE probs_unitaries

\* folded_weights that scales the identity branch only
folded_weights_unscaled(p_error, p_identity, p_unitary, p_kraus) ==
  <<RAdd(RSub(ROne, p_error), RMul(p_error, p_identity)),
    p_unitary,
    p_kraus>>

\* lines 180-182: the weights handed to set_probabilities
folded_weights(p_error, p_identity, p_unitary, p_kraus) ==
  <<RAdd(RSub(ROne, p_error), RMul(p_error, p_identity)),
    RMul(p_error, p_unitary),
    RMul(p_error, p_kraus)>>

\* set_operators that leaves the Kraus operators alone when the list is empty
set_operators_keeps_kraus(self, probs_unitaries, unitaries, kraus) ==
  LET ue == UnitaryError_set_unitaries(
              UnitaryError_set_probabilities(self.unitary_error_, probs_unitaries),
              unitaries)
  IN  [self EXCEPT
         !.unitary_error_ = ue,
         !.kraus_error_ =
            IF kraus = <<>>
            THEN KrausError_set_probability(self.kraus_error_, RZero)
            ELSE KrausError_set_probability(
                   KrausError_set_kraus(self.kraus_error_, kraus), ROne)]

\* lines 185-191
set_operators(self, probs_unitaries, unitaries, kraus) ==
  LET ue == UnitaryError_set_unitaries(
              UnitaryError_set_probabilities(self.unitary_error_, probs_unitaries),
              unitaries)
      ke == KrausError_set_kraus(self.kraus_error_, kraus)
  IN  [self EXCEPT
         !.unitary_error_ = ue,
         !.kraus_error_ = IF kraus = <<>>
                          THEN KrausError_set_probability(ke, RZero)
                          ELSE KrausError_set_probability(ke, ROne)]

\* lines 165-191 on the locals the loop has left and the p_kraus of line
\* 163; w is the weights of lines 180-182
install(self, loc, p_kraus, w) ==
  IF sanity_check_fails(loc.p_identity, loc.p_unitary, p_kraus)
  THEN [self |-> self, thrown |-> InvalidDecomposition, ps |-> loc.ps,
        weights |-> <<>>]
  ELSE [self |-> set_operators(set_probabilities(self, w[1], w[2], w[3]),
                               rescale_probs(loc.probs_unitaries, loc.p_unitary),
                               loc.unitaries,
                               rescale_kraus(loc.kraus, p_kraus)),
        thrown |-> NoError,
        ps |-> loc.ps,
        weights |-> w]

\* lines 135-191 on the locals the loop has left: a throw of the loop is the
\* outcome of the call
configure(self, loc, p_error) ==
  IF loc.thrown # NoError
  THEN [self |-> self, thrown |-> loc.thrown, ps |-> loc.ps, weights |-> <<>>]
  ELSE install(self, loc, infer_p_kraus(loc.p_identity, loc.p_unitary),
               folded_weights(p_error, loc.p_identity, loc.p_unitary,
                              infer_p_kraus(loc.p_identity, loc.p_unitary)))

\* ------------------------------------------------------------------------
\* RngEngine: a linear congruential generator on 0..RngMod-1; the variate
\* drawn in state s is s / RngMod
\* ------------------------------------------------------------------------
RngMod == 4
RngNext(s) == (5 * s + 3) % RngMod

\* rng.rand_int(dist): advances the engine once and returns the label whose
\* interval of the cumulative distribution holds the variate (0-based)
rand_int(probs, rng) ==
  LET s == RngNext(rng)
      u == Rat(s, RngMod)
      Cum[k \in 0..Len(probs)] == IF k = 0 THEN RZero ELSE RAdd(Cum[k - 1], probs[k])
  IN  [value |-> Cardinality({k \in 1..(Len(probs) - 1) : ~RLt(u, Cum[k])}),
       rng |-> s]

\* rng.rand(0, 1)
rand(rng) == [value |-> Rat(RngNext(rng), RngMod), rng |-> RngNext(rng)]

\* UnitaryError::sample_noise: draws one unitary by its weights and returns
\* the op followed by the unitary on the same qubits
UnitaryError_sample_noise(err, op, qubits, rng) ==
  LET r == rand_int(discrete_distribution(err.probabilities), rng)
  IN  IF r.value >= Len(err.unitaries)
      THEN [ops |-> <<op>>, rng |-> r.rng]
      ELSE [ops |-> <<op, [name |-> "mat", qubits |-> qubits,
                           mats |-> <<err.unitaries[r.value + 1]>>]>>,
            rng |-> r.rng]

\* KrausError::sample_noise: with the activation probability, the op followed
\* by the Kraus map on the same qubits
KrausError_sample_noise(err, op, qubits, rng) ==
  LET r == rand(rng)
  IN  IF RLt(r.value, err.probability)
      THEN [ops |-> <<op, [name |-> "kraus", qubits |-> qubits,
                           mats |-> err.kraus]>>,
            rng |-> r.rng]
      ELSE [ops |-> <<op>>, rng |-> r.rng]

\* ------------------------------------------------------------------------
\* GateError::sample_noise, lines 80-96
\* ------------------------------------------------------------------------
\* draw_noise_type that moves the distribution out of the member
draw_noise_type_moves(self, rng) ==
  LET r == rand_int(self.probabilities_, rng)
  IN  [self |-> [self EXCEPT !.probabilities_ = discrete_distribution(<<>>)],
       noise_type |-> r.value, rng |-> r.rng]

\* line 84: auto noise_type = rng.rand_int(probabilities_)
draw_noise_type(self, rng) ==
  LET r == rand_int(self.probabilities_, rng)
  IN  [self |-> self, noise_type |-> r.value, rng |-> r.rng]

\* the switch with the cases 1 and 2 exchanged
dispatch_swapped(self, noise_type, op, qubits, rng) ==
  CASE noise_type = 0 ->
         [self |-> self, thrown |-> NoError, ops |-> <<op>>, rng |-> rng]
    [] noise_type = 2 ->
         LET r == UnitaryError_sample_noise(self.unitary_error_, op, qubits, rng)
         IN  [self |-> self, thrown |-> NoError, ops |-> r.ops, rng |-> r.rng]
    [] noise_type = 1 ->
         LET r == KrausError_sample_noise(self.kraus_error_, op, qubits, rng)
         IN  [self |-> self, thrown |-> NoError, ops |-> r.ops, rng |-> r.rng]
    [] OTHER ->
         [self |-> self, thrown |-> UnreachableState, ops |-> <<>>, rng |-> rng]

\* lines 85-95: the switch
dispatch(self, noise_type, op, qubits, rng) ==
  CASE noise_type = 0 ->
         [self |-> self, thrown |-> NoError, ops |-> <<op>>, rng |-> rng]
    [] noise_type = 1 ->
         LET r == UnitaryError_sample_noise(self.unitary_error_, op, qubits, rng)
         IN  [self |-> self, thrown |-> NoError, ops |-> r.ops, rng |-> r.rng]
    [] noise_type = 2 ->
         LET r == KrausError_sample_noise(self.kraus_error_, op, qubits, rng)
         IN  [self |-> self, thrown |-> NoError, ops |-> r.ops, rng |-> r.rng]
    [] OTHER ->
         [self |-> self, thrown |-> UnreachableState, ops |-> <<>>, rng |-> rng]

\* the whole call
sample_noise(self, op, qubits, rng) ==
  LET d == draw_noise_type(self, rng)
  IN  dispatch(d.self, d.noise_type, op, qubits, d.rng)

\* ------------------------------------------------------------------------
\* The inputs: Kraus matrices, maps and error probabilities
\* ------------------------------------------------------------------------
Re(n, d) == Cx(Rat(n, d), RZero)
Im(n, d) == Cx(RZero, Rat(n, d))
M2(a, b, c, d) == <<<<a, b>>, <<c, d>>>>
O == CZero

\* The matrices a map is made of, by name.  9/25 + 16/25 = 1.
\*   I             the identity
\*   I35, Y45      3/5 I and 4/5 Y (Pauli Y)
\*   D1, D2        a dephasing pair, D1^+ D1 + D2^+ D2 = I
\*   A00, A01      4/5 |0><0| and 4/5 |0><1|: damping to |0>,
\*                 A00^+ A00 + A01^+ A01 = 16/25 I
\*   A10           4/5 |1><0|, A01^+ A01 + A10^+ A10 = 16/25 I
\*   N32           a 3x2 matrix with N^+ N = 16/25 I
Mat ==
  [I   |-> M2(COne, O, O, COne),
   I35 |-> M2(Re(3, 5), O, O, Re(3, 5)),
   Y45 |-> M2(O, Im(-4, 5), Im(4, 5), O),
   D1  |-> M2(Re(3, 5), O, O, Re(4, 5)),
   D2  |-> M2(Re(4, 5), O, O, Re(-3, 5)),
   A00 |-> M2(Re(4, 5), O, O, O),
   A01 |-> M2(O, Re(4, 5), O, O),
   A10 |-> M2(O, O, Re(4, 5), O),
   N32 |-> <<<<Re(4, 5), O>>, <<O, Re(4, 5)>>, <<O, O>>>>]

Names == DOMAIN Mat

\* a map is written as the sequence of the names of its matrices
Matrices(names) == [k \in 1..Len(names) |-> Mat[names[k]]]

SeqsUpTo(S, n) == UNION {[1..k -> S] : k \in 1..n}

\* what set_from_ops computes from mats alone, evaluated once for each map
\* of at most MaxOps matrices
Cptp == [names \in SeqsUpTo(Names, MaxOps) |->
           [defined |-> cptp_defined(Matrices(names)),
            identity |-> is_cptp(Matrices(names), FALSE)]] @@ <<>>
ReachesLoop(names) == Cptp[names].defined => Cptp[names].identity
Classified ==
  [names \in {nn \in SeqsUpTo(Names, MaxOps) : ReachesLoop(nn)} |->
     classify(Matrices(names))] @@ <<>>

\* every square root set_from_ops takes on the map is exact
ExactKraus(loc) == HasSqrt(RAbs(infer_p_kraus(loc.p_identity, loc.p_unitary)))
Exact(names) ==
  /\ \A k \in 1..Len(names) :
       is_square(Mat[names[k]]) => HasSqrt(weight(Mat[names[k]]))
  /\ ReachesLoop(names) => ExactKraus(Classified[names])

Maps == {names : names \in {nn \in SeqsUpTo(Names, MaxOps) : Exact(nn)}}

\* p_error
PErrors == {RZero, Rat(1, 2), ROne}

\* ------------------------------------------------------------------------
\* GateError::set_from_ops, lines 110-194
\* ------------------------------------------------------------------------
\* set_from_ops that starts from empty sub-errors
set_from_ops_clears_first(self, names, p_error, garbage) ==
  IF ~(IF Cptp[names].defined THEN Cptp[names].identity ELSE garbage)
  THEN [self |-> [self EXCEPT !.unitary_error_ = DefaultUnitaryError,
                              !.kraus_error_ = DefaultKrausError],
        thrown |-> InvalidChannel, ps |-> <<>>, weights |-> <<>>]
  ELSE configure([self EXCEPT !.unitary_error_ = DefaultUnitaryError,
                              !.kraus_error_ = DefaultKrausError],
                 Classified[names], p_error)

\* The object after the call, what the call threw, the p of each matrix the
\* loop handled and the weights given to the distribution.  names is the
\* map mats; garbage is the answer of the identity test of line 120 when
\* the sum of line 118 is not defined.
set_from_ops(self, names, p_error, garbage) ==
  IF ~(IF Cptp[names].defined THEN Cptp[names].identity ELSE garbage)
  THEN [self |-> self, thrown |-> InvalidChannel, ps |-> <<>>, weights |-> <<>>]
  ELSE configure(self, Classified[names], p_error)

\* ------------------------------------------------------------------------
\* The arguments of the mutators
\* ------------------------------------------------------------------------
\* set_probabilities: weights that sum to 1 and weights that do not
WeightArgs == {<<Rat(1, 2), Rat(1, 4), Rat(1, 4)>>, <<ROne, ROne, Rat(2, 1)>>}
\* set_kraus, set_unitary
KrausArgs == {[kraus |-> <<Mat.D2, Mat.D1>>, probability |-> ROne]}
UnitaryArgs == {[probabilities |-> <<ROne>>, unitaries |-> <<Mat.I>>]}

\* ------------------------------------------------------------------------
\* State: one GateError, the call made on it last, the number of calls
\* ------------------------------------------------------------------------
VARIABLES gate_error, call, ncalls,
          thread

vars == <<gate_error, call, ncalls, thread>>

NoObject == [object |-> "none"]
NoCall == [name |-> "none"]

\* the answers of the identity test of line 120 on the map: one when the sum
\* is defined, both when it is not
Garbage(names) == IF Cptp[names].defined THEN {FALSE} ELSE BOOLEAN

CanCall == call = NoCall /\ ncalls < MaxCalls

\* GateError() = default, line 35
Construct ==
  /\ gate_error = NoObject /\ call = NoCall
  /\ gate_error' = DefaultGateError
  /\ call' = [name |-> "GateError()", before |-> NoObject, thrown |-> NoError]
  /\ UNCHANGED <<ncalls, thread>>

\* GateError(mats), line 36: set_from_ops(mats, 1.0) on the default members;
\* no object exists when it throws
ConstructFromOps ==
  /\ gate_error = NoObject /\ call = NoCall
  /\ \E names \in Maps : \E garbage \in Garbage(names) :
     \E r \in {set_from_ops(DefaultGateError, names, ROne, garbage)} :
       /\ gate_error' = IF r.thrown = NoError THEN r.self ELSE NoObject
       /\ call' = [name |-> "GateError(mats)", mats |-> names,
                   p_error |-> ROne, garbage |-> garbage,
                   before |-> NoObject, thrown |-> r.thrown,
                   ps |-> r.ps, weights |-> r.weights]
  /\ UNCHANGED <<ncalls, thread>>

\* set_from_ops(mats, p_error), lines 110-194
SetFromOps ==
  /\ gate_error # NoObject /\ CanCall
  /\ \E names \in Maps : \E p_error \in PErrors : \E garbage \in Garbage(names) :
     \E r \in {set_from_ops(gate_error, names, p_error, garbage)} :
       /\ gate_error' = r.self
       /\ call' = [name |-> "set_from_ops", mats |-> names,
                   p_error |-> p_error, garbage |-> garbage,
                   before |-> gate_error, thrown |-> r.thrown,
                   ps |-> r.ps, weights |-> r.weights]
  /\ ncalls' = ncalls + 1
  /\ UNCHANGED thread

\* set_probabilities(p_identity, p_unitary, p_kraus), lines 98-100
SetProbabilities ==
  /\ gate_error # NoObject /\ CanCall
  /\ \E w \in WeightArgs :
       /\ gate_error' = set_probabilities(gate_error, w[1], w[2], w[3])
       /\ call' = [name |-> "set_probabilities", args |-> w,
                   before |-> gate_error, thrown |-> NoError]
  /\ ncalls' = ncalls + 1
  /\ UNCHANGED thread

\* set_kraus(err), lines 102-104
SetKraus ==
  /\ gate_error # NoObject /\ CanCall
  /\ \E err \in KrausArgs :
       /\ gate_error' = set_kraus(gate_error, err)
       /\ call' = [name |-> "set_kraus", args |-> err,
                   before |-> gate_error, thrown |-> NoError]
  /\ ncalls' = ncalls + 1
  /\ UNCHANGED thread

\* set_unitary(err), lines 106-108
SetUnitary ==
  /\ gate_error # NoObject /\ CanCall
  /\ \E err \in UnitaryArgs :
       /\ gate_error' = set_unitary(gate_error, err)
       /\ call' = [name |-> "set_unitary", args |-> err,
                   before |-> gate_error, thrown |-> NoError]
  /\ ncalls' = ncalls + 1
  /\ UNCHANGED thread

\* the caller has seen the outcome of the call
Return ==
  /\ call # NoCall
  /\ call' = NoCall
  /\ UNCHANGED <<gate_error, ncalls, thread>>

Init ==
  /\ gate_error = NoObject
  /\ call = NoCall
  /\ ncalls = 0
  /\ thread = <<>>

Next ==
  \/ Construct
  \/ ConstructFromOps
  \/ SetFromOps
  \/ SetProbabilities
  \/ SetKraus
  \/ SetUnitary
  \/ Return

Spec == Init /\ [][Next]_vars

\* ------------------------------------------------------------------------
\* Sampling threads: each thread has its own RngEngine and calls
\* sample_noise on the shared GateError
\* ------------------------------------------------------------------------
Threads == 1..NThreads

\* thread t replaces a gate on qubit t - 1
ThreadOp(t) == [name |-> "u", qubits |-> <<t - 1>>]
ThreadQubits(t) == <<t - 1>>

\* the models sampling starts from: default-constructed or decomposed from a
\* map
Configured ==
  {c : c \in {[r |-> set_from_ops(DefaultGateError, names, p_error, FALSE)] :
              names \in {nn \in Maps : Cptp[nn].defined /\ Cptp[nn].identity},
              p_error \in PErrors}}

\* line 84 of the call of thread t
Draw(t) ==
  /\ thread[t].pc = "idle"
  /\ Len(thread[t].results) < MaxSamples
  /\ \E d \in {draw_noise_type(gate_error, thread[t].rng)} :
       /\ gate_error' = d.self
       /\ thread' = [thread EXCEPT ![t] =
                       [@ EXCEPT !.pc = "switch", !.rng0 = thread[t].rng,
                                 !.rng1 = d.rng, !.rng = d.rng,
                                 !.noise_type = d.noise_type]]
  /\ UNCHANGED <<call, ncalls>>

\* lines 85-95 of the call of thread t, and its return
Dispatch(t) ==
  /\ thread[t].pc = "switch"
  /\ \E r \in {dispatch(gate_error, thread[t].noise_type, ThreadOp(t),
                        ThreadQubits(t), thread[t].rng)} :
       /\ gate_error' = r.self
       /\ thread' = [thread EXCEPT ![t] =
                       [@ EXCEPT !.pc = "idle", !.rng = r.rng,
                                 !.results = Append(@, [thrown |-> r.thrown,
                                                        ops |-> r.ops])]]
  /\ UNCHANGED <<call, ncalls>>

InitThreads ==
  /\ \/ /\ gate_error = DefaultGateError
        /\ call = [name |-> "GateError()", after |-> gate_error]
     \/ \E c \in Configured :
          /\ c.r.thrown = NoError
          /\ gate_error = c.r.self
          /\ call = [name |-> "set_from_ops", after |-> c.r.self]
  /\ ncalls = 0
  /\ thread \in [Threads -> {[pc |-> "idle", seed |-> s, rng |-> s, rng0 |-> s,
                               rng1 |-> s, noise_type |-> 0, results |-> <<>>] :
                              s \in 0..(RngMod - 1)}]

NextThreads == \E t \in Threads : Draw(t) \/ Dispatch(t)

SpecThreads == InitThreads /\ [][NextThreads]_vars

\* ------------------------------------------------------------------------
\* sample_noise called n times in a row by one thread alone
\* ------------------------------------------------------------------------
SampleAlone(self, seed, op, qubits, n) ==
  LET R[k \in 0..n] ==
        IF k = 0 THEN [rng |-> seed, results |-> <<>>]
        ELSE LET r == sample_noise(self, op, qubits, R[k - 1].rng)
             IN  [rng |-> r.rng,
                  results |-> Append(R[k - 1].results,
                                     [thrown |-> r.thrown, ops |-> r.ops])]
  IN  R[n]

\* ------------------------------------------------------------------------
\* Properties
\* ------------------------------------------------------------------------
Decomposed == call.name \in {"set_from_ops", "GateError(mats)"}
Succeeded == Decomposed /\ call.thrown = NoError
Failed == Decomposed /\ call.thrown # NoError

\* a thread that has returned from a sample_noise call
Sampled(t) == thread[t].pc = "idle" /\ thread[t].results # <<>>
LastResult(t) == thread[t].results[Len(thread[t].results)]

\* labels outside the 3-outcome distribution
OtherLabels == 3..5

\* C1: sample_noise draws one label and dispatches on it: label 0 returns
\* <<op>> and draws nothing more, label 1 returns what the unitary
\* sub-channel's sample_noise returns on the same op, qubits and rng, label 2
\* what the Kraus sub-channel's returns; any other label throws and returns
\* nothing.
C1_Dispatch ==
  /\ \A t \in Threads :
       Sampled(t) =>
         LET th == thread[t]
             u == UnitaryError_sample_noise(gate_error.unitary_error_,
                                            ThreadOp(t), ThreadQubits(t), th.rng1)
             kr == KrausError_sample_noise(gate_error.kraus_error_,
                                           ThreadOp(t), ThreadQubits(t), th.rng1)
         IN  /\ th.noise_type \in 0..2
             /\ th.noise_type = rand_int(gate_error.probabilities_, th.rng0).value
             /\ th.rng1 = rand_int(gate_error.probabilities_, th.rng0).rng
             /\ LastResult(t).thrown = NoError
             /\ th.noise_type = 0 =>
                  LastResult(t).ops = <<ThreadOp(t)>> /\ th.rng = th.rng1
             /\ th.noise_type = 1 =>
                  LastResult(t).ops = u.ops /\ th.rng = u.rng
             /\ th.noise_type = 2 =>
                  LastResult(t).ops = kr.ops /\ th.rng = kr.rng
  /\ \A t \in Threads : \A l \in OtherLabels :
       LET r == dispatch(gate_error, l, ThreadOp(t), ThreadQubits(t), thread[t].rng)
       IN  r.thrown = UnreachableState /\ r.ops = <<>>

\* a thread has returned from a call that delegated to the Kraus sub-channel
C1_Witness ==
  \E t \in Threads :
    Sampled(t) /\ thread[t].noise_type = 2 /\ Len(LastResult(t).ops) = 2

\* C2: after a successful set_from_ops the three weights given to the
\* distribution are non-negative and sum to 1.
C2_Weights ==
  Succeeded =>
    /\ Len(call.weights) = 3
    /\ \A k \in 1..3 : ~RLt(call.weights[k], RZero)
    /\ RSum(call.weights) = ROne

\* a decomposition with p_error < 1 and a Kraus weight strictly inside (0, 1)
C2_Witness ==
  /\ Succeeded
  /\ RLt(call.p_error, ROne)
  /\ RGt(call.weights[3], RZero)
  /\ RGt(call.weights[1], RSub(ROne, call.p_error))

\* C3: a set_from_ops that throws leaves the distribution and both
\* sub-channels as they were, and a GateError constructed from the map does
\* not exist.
C3_NoPartialModel ==
  /\ (call.name = "set_from_ops" /\ call.thrown # NoError) =>
       gate_error = call.before
  /\ (call.name = "GateError(mats)" /\ call.thrown # NoError) =>
       gate_error = NoObject

\* set_from_ops has thrown on a model that was not the default one
C3_Witness ==
  /\ call.name = "set_from_ops"
  /\ call.thrown = NonSquareOperator
  /\ Cptp[call.mats].defined
  /\ call.before # DefaultGateError
  /\ call.before.kraus_error_ # DefaultKrausError

\* C4: after a successful set_from_ops a nonzero Kraus weight implies that
\* the Kraus sub-channel holds an operator and has activation probability 1.
C4_KrausBranchBacked ==
  Succeeded =>
    (RGt(gate_error.probabilities_[3], RZero) =>
       /\ gate_error.kraus_error_.kraus # <<>>
       /\ gate_error.kraus_error_.probability = ROne)

HasNonSquare(names) == \E k \in 1..Len(names) : ~is_square(Mat[names[k]])

\* C5: with a non-square matrix in the map, set_from_ops throws the
\* non-square error, before any operator of the map has been classified
\* (stated for the maps on which the sum of line 118 is defined).
C5_NonSquareFirst ==
  (Decomposed /\ HasNonSquare(call.mats) /\ Cptp[call.mats].defined) =>
    /\ call.thrown = NonSquareOperator
    /\ call.ps = <<>>

\* C6: a successful set_from_ops leaves the model that the same call leaves
\* on a default-constructed GateError, whatever the model was before.
C6_IndependentOfPrior ==
  (call.name = "set_from_ops" /\ call.thrown = NoError) =>
    gate_error = set_from_ops(DefaultGateError, call.mats, call.p_error,
                              call.garbage).self

\* set_from_ops has succeeded on a model whose three parts had been set to
\* something else, and it has emptied the Kraus sub-channel
C6_Witness ==
  /\ call.name = "set_from_ops" /\ call.thrown = NoError
  /\ call.before.kraus_error_.kraus # <<>>
  /\ call.before.unitary_error_.unitaries # <<>>
  /\ gate_error.kraus_error_.kraus = <<>>
  /\ gate_error.probabilities_ # call.before.probabilities_

\* C7: sampling leaves the model as it was configured, and every thread has
\* the results it would have had calling sample_noise alone with its rng.
C7_SamplingIsPure ==
  /\ gate_error = call.after
  /\ \A t \in Threads :
       LET alone == SampleAlone(call.after, thread[t].seed, ThreadOp(t),
                                ThreadQubits(t), Len(thread[t].results))
       IN  /\ thread[t].results = alone.results
           /\ thread[t].pc = "idle" => thread[t].rng = alone.rng

\* one thread is inside sample_noise, between the draw and the switch, and
\* another has returned from a call that delegated to a sub-channel
C7_Witness ==
  \E t1, t2 \in Threads :
    /\ t1 # t2
    /\ thread[t1].pc = "switch"
    /\ Sampled(t2) /\ Len(LastResult(t2).ops) = 2

\* C8: the p computed for a square matrix M is the real part of the (0, 0)
\* entry of M * dagger(M).
C8_WeightIsDiagonalEntry ==
  Decomposed =>
    \A k \in 1..Len(call.ps) :
      call.ps[k] = CReal(At(MatMul(Mat[call.mats[k]], dagger(Mat[call.mats[k]])), 0, 0))

\* C9: after a successful set_from_ops with a non-empty Kraus list, the
\* operators of the Kraus sub-channel form a CPTP map.
C9_KrausIsCptp ==
  (Succeeded /\ gate_error.kraus_error_.kraus # <<>>) =>
    is_identity(cptp_sum(gate_error.kraus_error_.kraus))

\* C10 as stated: set_probabilities stores exactly the supplied values, and
\* each mutator changes its own component only.
C10_Original ==
  /\ call.name = "set_probabilities" =>
       /\ call.thrown = NoError
       /\ gate_error.probabilities_ = call.args
       /\ gate_error.unitary_error_ = call.before.unitary_error_
       /\ gate_error.kraus_error_ = call.before.kraus_error_
  /\ call.name = "set_kraus" =>
       /\ call.thrown = NoError
       /\ gate_error.kraus_error_ = call.args
       /\ gate_error.probabilities_ = call.before.probabilities_
       /\ gate_error.unitary_error_ = call.before.unitary_error_
  /\ call.name = "set_unitary" =>
       /\ call.thrown = NoError
       /\ gate_error.unitary_error_ = call.args
       /\ gate_error.probabilities_ = call.before.probabilities_
       /\ gate_error.kraus_error_ = call.before.kraus_error_

\* C10 amended: set_probabilities stores the supplied values divided by
\* their sum, and each mutator changes its own component only.
C10_Mutators ==
  /\ call.name = "set_probabilities" =>
       /\ call.thrown = NoError
       /\ Len(gate_error.probabilities_) = 3
       /\ \A k \in 1..3 :
            gate_error.probabilities_[k] = RDiv(call.args[k], RSum(call.args))
       /\ gate_error.unitary_error_ = call.before.unitary_error_
       /\ gate_error.kraus_error_ = call.before.kraus_error_
  /\ call.name = "set_kraus" =>
       /\ call.thrown = NoError
       /\ gate_error.kraus_error_ = call.args
       /\ gate_error.probabilities_ = call.before.probabilities_
       /\ gate_error.unitary_error_ = call.before.unitary_error_
  /\ call.name = "set_unitary" =>
       /\ call.thrown = NoError
       /\ gate_error.unitary_error_ = call.args
       /\ gate_error.probabilities_ = call.before.probabilities_
       /\ gate_error.kraus_error_ = call.before.kraus_error_

\* set_probabilities has been given weights that do not sum to 1, on a model
\* whose sub-channels a decomposition had filled
C10_Witness ==
  /\ call.name = "set_probabilities"
  /\ RSum(call.args) # ROne
  /\ call.before.unitary_error_.unitaries # <<>>

====
